---- MODULE Spec2Model ----
(***************************************************************************)
(* Model of src/main.rs: a Wayland client that keeps one movable Rect in   *)
(* an Arc<RwLock<AppState>>, rasterizes it into a shared-memory tempfile   *)
(* (draw) and commits the buffer from its main loop, while pointer and     *)
(* keyboard handlers move the Rect.                                        *)
(*                                                                         *)
(* u32 values do not fit TLC's integers, so a u32 v is the pair            *)
(* <<v \div 2^16, v % 2^16>> (high half, low half).                        *)
(* wl_fixed pointer coordinates (the f64 payload of wl_pointer events) are *)
(* integers counting 1/256ths.                                             *)
(***************************************************************************)
EXTENDS Integers, Sequences, FiniteSets, TLC

\* ------------------------------------------------------------------ bounds
\* Geometry, scaled down so that a whole buffer is part of every state. The
\* program has BUF_X = 640, BUF_Y = 480 (main.rs:18-19) and a 50 x 50 Rect
\* (main.rs:53-54); the model keeps the shape: a non-square buffer, wider than
\* high, in which the Rect and all four of its borders are visible at the
\* positions the inputs below reach.
BUF_X == 16
BUF_Y == 12
RECT_W == 5
RECT_H == 5
\* Input events (pointer, keyboard) delivered in one run.
MaxInputs == 2
\* Frame-done notifications fired in one run.
MaxFrames == 2
\* Motion handlers and render passes run by the two actors of SpecRW.
MaxWrites == 2
MaxPasses == 2

\* ------------------------------------------------------- program constants
KEY_STEP == 5
KEY_UP == 103
KEY_DOWN == 108
KEY_LEFT == 105
KEY_RIGHT == 106

\* ----------------------------------------------------------- u32 as a pair
Half == 2 ^ 16

U32(n) == <<n \div Half, n % Half>>

U32Lt(a, b) == a[1] < b[1] \/ (a[1] = b[1] /\ a[2] < b[2])

\* a + b and a - b as the hardware computes them (mod 2^32)
WrappingAdd(a, b) ==
    LET lo == a[2] + b[2]
        hi == a[1] + b[1] + (lo \div Half)
    IN  <<hi % Half, lo % Half>>

WrappingSub(a, b) ==
    LET borrow == IF a[2] < b[2] THEN 1 ELSE 0
        lo == a[2] - b[2] + borrow * Half
        hi == a[1] - b[1] - borrow
    IN  <<hi % Half, lo>>

AddOverflows(a, b) ==
    LET lo == a[2] + b[2] IN a[1] + b[1] + (lo \div Half) >= Half

SubOverflows(a, b) == U32Lt(a, b)

\* `f as u32` for an f64 that holds the wl_fixed value v (v counts 1/256ths):
\* the fraction is dropped. A value of -1.0 or less is out of u32's range: the
\* cast saturates to 0 on toolchains since Rust 1.45 and was undefined before
\* (x86-64 then yields the truncated value mod 2^32); both outcomes are kept.
F64AsU32(v) ==
    IF v >= 0 THEN {U32(v \div 256)}
    ELSE IF v > -256 THEN {U32(0)}
    ELSE {U32(0), WrappingSub(U32(0), U32((0 - v) \div 256))}

\* ------------------------------------------------------------------ state
VARIABLES
    pc,              \* where main is: "start", "attach", "damage", "commit",
                     \* "frame", "dispatch", or "panicked"
    rect,            \* AppState.rect: [x, y, w, h], each a u32 pair
    tmp_file,        \* AppState.tmp_file: [pos, bytes], the shared buffer
    overflow_checks, \* the build: TRUE when arithmetic overflow panics
    requests,        \* surface requests issued since the last commit
    committed,       \* the requests the last commit applied
    frame_cbs,       \* frame callbacks requested and not yet fired
    handled,         \* the current dispatch() has invoked a handler
    last_event,      \* the event the last handler was invoked with
    nDraw,           \* calls of draw so far
    nCommit,         \* commits so far
    nDone,           \* frame-done notifications fired so far
    nInput,          \* input events delivered so far
    last_op,         \* the later of the last render and the last commit
    drawn_rect,      \* the Rect the last call of draw read
    prev_rect,       \* the Rect before the last input handler ran
    \* the RwLock and the two actors of SpecRW (constant under Spec, where
    \* main's thread runs every handler and every draw to completion)
    lock,            \* RwLock state: [readers, writer]
    w_pc,            \* the motion handler: "idle", "set_x", "set_y", "unlock"
    w_cast,          \* the handler's payload after `as u32`: <<x, y>>
    r_pc,            \* draw: "idle", "print", "seek", "test_x", "test_y",
                     \* "write", "unlock", or "panicked"
    r_cls,           \* classes of the pixels the loop has pushed so far
    obs_x,           \* the values of rect.x the current pass has read
    obs_y,           \* the values of rect.y the current pass has read
    completed,       \* the (x, y) left by AppState::new and by each handler
    nWrites,         \* motion handlers completed
    nPasses          \* render passes completed

vars == <<pc, rect, tmp_file, overflow_checks, requests, committed,
          frame_cbs, handled, last_event, nDraw, nCommit, nDone, nInput,
          last_op, drawn_rect, prev_rect, lock, w_pc, w_cast, r_pc, r_cls,
          obs_x, obs_y, completed, nWrites, nPasses>>

rw_vars == <<lock, w_pc, w_cast, r_pc, r_cls, obs_x, obs_y, completed,
             nWrites, nPasses>>

main_vars == <<pc, requests, committed, frame_cbs, handled, last_event, nDraw,
               nCommit, nDone, nInput, last_op, drawn_rect, prev_rect>>

\* --------------------------------------------------------------- AppState
AppState_new ==
    [x |-> U32(0), y |-> U32(0), w |-> U32(RECT_W), h |-> U32(RECT_H)]

\* a span test that computes lo + len before it compares lo with v
span_test_eager(lo, len, v) ==
    IF overflow_checks /\ AddOverflows(lo, len) THEN "panic"
    ELSE IF ~U32Lt(lo, v) THEN "out"
    ELSE IF ~U32Lt(v, WrappingAdd(lo, len)) THEN "out"
    ELSE "in"

\* ------------------------------------------------------------------- draw
\* One half of is_coords_in_rect, `v > lo && v < lo + len`: "in", "out", or
\* "panic" when the sum overflows in a build with overflow checks. && stops
\* at the first false operand, so the sum is only computed when v > lo.
span_test(lo, len, v) ==
    IF ~U32Lt(lo, v) THEN "out"
    ELSE IF overflow_checks /\ AddOverflows(lo, len) THEN "panic"
    ELSE IF ~U32Lt(v, WrappingAdd(lo, len)) THEN "out"
    ELSE "in"

\* lines 156-158: the x half, and the y half only when the x half holds
is_coords_in_rect(r, i, j) ==
    IF span_test(r.x, r.w, i) # "in" THEN span_test(r.x, r.w, i)
    ELSE span_test(r.y, r.h, j)

\* the coordinates the loop derives from the pixel index i
pixel_x(i) == i % BUF_X

pixel_y(i) == i \div BUF_Y

pixel_class(r, i) == is_coords_in_rect(r, U32(pixel_x(i)), U32(pixel_y(i)))

\* the four bytes pushed for one pixel, in push order
pixel_bytes(inside) ==
    LET c == IF inside THEN 255 ELSE 0 IN <<255, c, c, c>>

\* the Vec<u8> the loop builds from the classes of the pixels, in index order
pixel_vec(cls) ==
    [k \in 1 .. (4 * Len(cls)) |->
        pixel_bytes(cls[((k - 1) \div 4) + 1] = "in")[((k - 1) % 4) + 1]]

pixels(r) ==
    pixel_vec([n \in 1 .. (BUF_X * BUF_Y) |-> pixel_class(r, n - 1)])

draw_panics(r) ==
    \E i \in 0 .. (BUF_X * BUF_Y - 1) : pixel_class(r, i) = "panic"

\* a draw that does not rewind the file
seek_missing(f) == f

\* tmp.seek(SeekFrom::Start(0))
seek_start(f) == [f EXCEPT !.pos = 0]

\* tmp.write_all(data): overwrites from the file position, extends the file
\* when it runs past the end, and advances the position
write_all(f, data) ==
    LET end == f.pos + Len(data)
        len == IF end > Len(f.bytes) THEN end ELSE Len(f.bytes)
    IN  [pos   |-> end,
         bytes |-> [k \in 1 .. len |->
                      IF k > f.pos /\ k <= end THEN data[k - f.pos]
                      ELSE IF k <= Len(f.bytes) THEN f.bytes[k]
                      ELSE 0]]

\* a draw that renders the Rect as it was before the latest input event
draw_stale(next) ==
    IF draw_panics(prev_rect)
    THEN /\ pc' = "panicked"
         /\ UNCHANGED <<tmp_file, nDraw, last_op, drawn_rect>>
    ELSE /\ tmp_file' = write_all(seek_start(tmp_file), pixels(prev_rect))
         /\ nDraw' = nDraw + 1
         /\ last_op' = "render"
         /\ drawn_rect' = prev_rect
         /\ pc' = next

\* one call of draw by main's thread, which continues at `next`
draw(next) ==
    IF draw_panics(rect)
    THEN /\ pc' = "panicked"
         /\ UNCHANGED <<tmp_file, nDraw, last_op, drawn_rect>>
    ELSE /\ tmp_file' = write_all(seek_start(tmp_file), pixels(rect))
         /\ nDraw' = nDraw + 1
         /\ last_op' = "render"
         /\ drawn_rect' = rect
         /\ pc' = next

\* ------------------------------------------------------------------- main
Init ==
    /\ pc = "start"
    /\ rect = AppState_new
    /\ tmp_file = [pos |-> 0, bytes |-> <<>>]
    /\ overflow_checks \in BOOLEAN
    /\ requests = <<>>
    /\ committed = <<>>
    /\ frame_cbs = 0
    /\ handled = FALSE
    /\ last_event = <<"none">>
    /\ nDraw = 0
    /\ nCommit = 0
    /\ nDone = 0
    /\ nInput = 0
    /\ last_op = "none"
    /\ drawn_rect = AppState_new
    /\ prev_rect = AppState_new
    /\ lock = [readers |-> 0, writer |-> FALSE]
    /\ w_pc = "idle"
    /\ w_cast = <<U32(0), U32(0)>>
    /\ r_pc = "idle"
    /\ r_cls = <<>>
    /\ obs_x = {}
    /\ obs_y = {}
    /\ completed = {<<AppState_new.x, AppState_new.y>>}
    /\ nWrites = 0
    /\ nPasses = 0

\* a startup that enters the loop without the render before it
StartupNoDraw ==
    /\ pc = "start"
    /\ pc' = "attach"
    /\ UNCHANGED <<rect, tmp_file, overflow_checks, requests, committed,
                   frame_cbs, handled, last_event, nDraw, nCommit, nDone,
                   nInput, last_op, drawn_rect, prev_rect>>
    /\ UNCHANGED rw_vars

\* line 119: the render before the loop
StartupDraw ==
    /\ pc = "start"
    /\ draw("attach")
    /\ UNCHANGED <<rect, overflow_checks, requests, committed, frame_cbs,
                   handled, last_event, nCommit, nDone, nInput, prev_rect>>
    /\ UNCHANGED rw_vars

attach_request == <<"attach", 0, 0>>

\* a damage request that passes the width twice
damage_request_square == <<"damage", 0, 0, BUF_X, BUF_X>>

damage_request == <<"damage", 0, 0, BUF_X, BUF_Y>>

\* line 124: surface.attach(Some(&buffer), 0, 0)
Attach ==
    /\ pc = "attach"
    /\ requests' = Append(requests, attach_request)
    /\ pc' = "damage"
    /\ UNCHANGED <<rect, tmp_file, overflow_checks, committed,
                   frame_cbs, handled, last_event, nDraw, nCommit, nDone,
                   nInput, last_op, drawn_rect, prev_rect>>
    /\ UNCHANGED rw_vars

\* line 125: surface.damage_buffer(0, 0, BUF_X, BUF_Y)
Damage ==
    /\ pc = "damage"
    /\ requests' = Append(requests, damage_request)
    /\ pc' = "commit"
    /\ UNCHANGED <<rect, tmp_file, overflow_checks, committed,
                   frame_cbs, handled, last_event, nDraw, nCommit, nDone,
                   nInput, last_op, drawn_rect, prev_rect>>
    /\ UNCHANGED rw_vars

\* lines 126-128: surface.commit(), display.flush()
Commit ==
    /\ pc = "commit"
    /\ committed' = requests
    /\ requests' = <<>>
    /\ nCommit' = nCommit + 1
    /\ last_op' = "commit"
    /\ pc' = "frame"
    /\ UNCHANGED <<rect, tmp_file, overflow_checks, frame_cbs,
                   handled, last_event, nDraw, nDone, nInput, drawn_rect,
                   prev_rect>>
    /\ UNCHANGED rw_vars

\* lines 130-131: surface.frame() and the registration of its handler
RequestFrame ==
    /\ pc = "frame"
    /\ frame_cbs' = frame_cbs + 1
    /\ handled' = FALSE
    /\ pc' = "dispatch"
    /\ UNCHANGED <<rect, tmp_file, overflow_checks, requests,
                   committed, last_event, nDraw, nCommit, nDone, nInput,
                   last_op, drawn_rect, prev_rect>>
    /\ UNCHANGED rw_vars

\* line 133: event_queue.dispatch() returns once it has dispatched the
\* events that had arrived (at least one)
DispatchReturn ==
    /\ pc = "dispatch"
    /\ handled
    /\ pc' = "attach"
    /\ UNCHANGED <<rect, tmp_file, overflow_checks, requests,
                   committed, frame_cbs, handled, last_event, nDraw, nCommit,
                   nDone, nInput, last_op, drawn_rect, prev_rect>>
    /\ UNCHANGED rw_vars

\* ------------------------------------------------ handlers run by dispatch
\* wl_callback done: the surface fires one requested frame callback
CallbackDone ==
    /\ pc = "dispatch"
    /\ frame_cbs > 0
    /\ nDone < MaxFrames
    /\ frame_cbs' = frame_cbs - 1
    /\ nDone' = nDone + 1
    /\ handled' = TRUE
    /\ last_event' = <<"done">>
    /\ draw("dispatch")
    /\ UNCHANGED <<rect, overflow_checks, requests, committed, nCommit,
                   nInput, prev_rect>>
    /\ UNCHANGED rw_vars

\* what every input handler leaves alone, and what delivering an event does
\* to the bookkeeping of dispatch
Delivered(ev) ==
    /\ pc = "dispatch"
    /\ nInput < MaxInputs
    /\ nInput' = nInput + 1
    /\ handled' = TRUE
    /\ last_event' = ev
    /\ prev_rect' = rect
    /\ UNCHANGED <<tmp_file, overflow_checks, requests,
                   committed, frame_cbs, nDraw, nCommit, nDone, last_op,
                   drawn_rect>>
    /\ UNCHANGED rw_vars

\* payloads the events are drawn from: wl_fixed coordinates (2.75, 3.0) and
\* (-1.5, 10.0); releases of the four arrow keys and of one other key, a
\* press of an arrow key; a press of the left button
MotionPayloads == {<<704, 768>>, <<-384, 2560>>}

EnterPayloads == {<<704, 768>>}

KeyEvents ==
    {<<k, "Released">> : k \in {KEY_UP, KEY_DOWN, KEY_LEFT, KEY_RIGHT, 30}}
        \cup {<<KEY_LEFT, "Pressed">>}

ButtonEvents == {<<272, "Pressed">>}

\* a motion handler that moves the Rect by the payload
motion_rect_relative(r, cx, cy) ==
    [r EXCEPT !.x = WrappingAdd(r.x, cx), !.y = WrappingAdd(r.y, cy)]

\* lines 218-225: wl_pointer motion
motion_rect(r, cx, cy) == [r EXCEPT !.x = cx, !.y = cy]

PointerMotion ==
    \E p \in MotionPayloads :
        /\ Delivered(<<"motion", p[1], p[2]>>)
        /\ \E cx \in F64AsU32(p[1]), cy \in F64AsU32(p[2]) :
               rect' = motion_rect(rect, cx, cy)
        /\ pc' = pc

\* lines 212-214: wl_pointer enter
PointerEnter ==
    \E p \in EnterPayloads :
        /\ Delivered(<<"enter", p[1], p[2]>>)
        /\ UNCHANGED <<rect, pc>>

\* lines 215-217: wl_pointer leave
PointerLeave ==
    /\ Delivered(<<"leave">>)
    /\ UNCHANGED <<rect, pc>>

\* lines 226-238: wl_pointer button
PointerButton ==
    \E b \in ButtonEvents :
        /\ Delivered(<<"button", b[1], b[2]>>)
        /\ UNCHANGED <<rect, pc>>

\* a key step that shrinks the Rect along the field's axis instead of moving it
step_sub_resizes(r, f) ==
    LET side == IF f = "x" THEN "w" ELSE "h"
    IN  IF overflow_checks /\ SubOverflows(r[side], U32(KEY_STEP))
        THEN [panic |-> TRUE, rect |-> r]
        ELSE [panic |-> FALSE,
              rect |-> [r EXCEPT ![side] = WrappingSub(r[side], U32(KEY_STEP))]]

\* `field - 5` and `field + 5` on a u32: in a build with overflow checks an
\* overflowing operation panics, otherwise the result wraps
step_sub(r, f) ==
    IF overflow_checks /\ SubOverflows(r[f], U32(KEY_STEP))
    THEN [panic |-> TRUE, rect |-> r]
    ELSE [panic |-> FALSE,
          rect |-> [r EXCEPT ![f] = WrappingSub(r[f], U32(KEY_STEP))]]

step_add(r, f) ==
    IF overflow_checks /\ AddOverflows(r[f], U32(KEY_STEP))
    THEN [panic |-> TRUE, rect |-> r]
    ELSE [panic |-> FALSE,
          rect |-> [r EXCEPT ![f] = WrappingAdd(r[f], U32(KEY_STEP))]]

\* a key handler that steps the Rect on press as well as on release
key_match_any_state(r, key, st) ==
    IF key = KEY_UP THEN step_sub(r, "y")
    ELSE IF key = KEY_DOWN THEN step_add(r, "y")
    ELSE IF key = KEY_LEFT THEN step_sub(r, "x")
    ELSE IF key = KEY_RIGHT THEN step_add(r, "x")
    ELSE [panic |-> FALSE, rect |-> r]

\* lines 258-272: the match on (state, key)
key_match(r, key, st) ==
    IF st = "Released" /\ key = KEY_UP THEN step_sub(r, "y")
    ELSE IF st = "Released" /\ key = KEY_DOWN THEN step_add(r, "y")
    ELSE IF st = "Released" /\ key = KEY_LEFT THEN step_sub(r, "x")
    ELSE IF st = "Released" /\ key = KEY_RIGHT THEN step_add(r, "x")
    ELSE [panic |-> FALSE, rect |-> r]

\* lines 252-275: wl_keyboard key
KeyboardKey ==
    \E k \in KeyEvents :
        /\ Delivered(<<"key", k[1], k[2]>>)
        /\ rect' = key_match(rect, k[1], k[2]).rect
        /\ pc' = IF key_match(rect, k[1], k[2]).panic THEN "panicked" ELSE pc

Next ==
    \/ StartupDraw
    \/ Attach
    \/ Damage
    \/ Commit
    \/ RequestFrame
    \/ DispatchReturn
    \/ CallbackDone
    \/ PointerMotion
    \/ PointerEnter
    \/ PointerLeave
    \/ PointerButton
    \/ KeyboardKey

Spec == Init /\ [][Next]_vars

\* ================================================================ SpecRW
\* The motion handler and draw as two actors on the shared
\* Arc<RwLock<AppState>>, one step per lock operation and per field access.

\* a lock that never makes its caller wait
lock_ignored(l) == TRUE

\* RwLock::write() returns once no reader and no writer holds the lock
write_lock_free(l) == l.readers = 0 /\ ~l.writer

\* RwLock::read() returns once no writer holds the lock
read_lock_free(l) == ~l.writer

\* line 222: app_state.write()
MotionLock ==
    /\ w_pc = "idle"
    /\ nWrites < MaxWrites
    /\ write_lock_free(lock)
    /\ \E p \in MotionPayloads :
           \E cx \in F64AsU32(p[1]), cy \in F64AsU32(p[2]) :
               w_cast' = <<cx, cy>>
    /\ lock' = [lock EXCEPT !.writer = TRUE]
    /\ w_pc' = "set_x"
    /\ UNCHANGED <<rect, tmp_file, overflow_checks, r_pc, r_cls, obs_x, obs_y,
                   completed, nWrites, nPasses>>
    /\ UNCHANGED main_vars

\* line 223: writable_app_state.rect.x = x as u32
MotionSetX ==
    /\ w_pc = "set_x"
    /\ rect' = [rect EXCEPT !.x = w_cast[1]]
    /\ w_pc' = "set_y"
    /\ UNCHANGED <<tmp_file, overflow_checks, lock, w_cast, r_pc, r_cls, obs_x,
                   obs_y, completed, nWrites, nPasses>>
    /\ UNCHANGED main_vars

\* line 224: writable_app_state.rect.y = y as u32
MotionSetY ==
    /\ w_pc = "set_y"
    /\ rect' = [rect EXCEPT !.y = w_cast[2]]
    /\ w_pc' = "unlock"
    /\ UNCHANGED <<tmp_file, overflow_checks, lock, w_cast, r_pc, r_cls, obs_x,
                   obs_y, completed, nWrites, nPasses>>
    /\ UNCHANGED main_vars

\* line 225: the write guard is dropped at the end of the closure
MotionUnlock ==
    /\ w_pc = "unlock"
    /\ lock' = [lock EXCEPT !.writer = FALSE]
    /\ completed' = completed \cup {<<rect.x, rect.y>>}
    /\ nWrites' = nWrites + 1
    /\ w_pc' = "idle"
    /\ UNCHANGED <<rect, tmp_file, overflow_checks, w_cast, r_pc, r_cls, obs_x,
                   obs_y, nPasses>>
    /\ UNCHANGED main_vars

\* line 142: app_state.read()
DrawLock ==
    /\ r_pc = "idle"
    /\ nPasses < MaxPasses
    /\ read_lock_free(lock)
    /\ lock' = [lock EXCEPT !.readers = @ + 1]
    /\ r_cls' = <<>>
    /\ obs_x' = {}
    /\ obs_y' = {}
    /\ r_pc' = "print"
    /\ UNCHANGED <<rect, tmp_file, overflow_checks, w_pc, w_cast, completed,
                   nWrites, nPasses>>
    /\ UNCHANGED main_vars

\* lines 146-150: println! of rect.x and rect.y
DrawPrint ==
    /\ r_pc = "print"
    /\ obs_x' = obs_x \cup {rect.x}
    /\ obs_y' = obs_y \cup {rect.y}
    /\ r_pc' = "seek"
    /\ UNCHANGED <<rect, tmp_file, overflow_checks, lock, w_pc, w_cast, r_cls,
                   completed, nWrites, nPasses>>
    /\ UNCHANGED main_vars

\* line 153: tmp.seek(SeekFrom::Start(0))
DrawSeek ==
    /\ r_pc = "seek"
    /\ tmp_file' = seek_start(tmp_file)
    /\ r_pc' = "test_x"
    /\ UNCHANGED <<rect, overflow_checks, lock, w_pc, w_cast, r_cls, obs_x,
                   obs_y, completed, nWrites, nPasses>>
    /\ UNCHANGED main_vars

\* where the loop goes after pushing the pixel that makes r_cls' complete
after_push(cls) ==
    IF Len(cls) = BUF_X * BUF_Y THEN "write" ELSE "test_x"

\* lines 167-187, pixel Len(r_cls): the x half of is_coords_in_rect; the pixel
\* is pushed here when that half is false
DrawTestX ==
    /\ r_pc = "test_x"
    /\ Len(r_cls) < BUF_X * BUF_Y
    /\ obs_x' = obs_x \cup {rect.x}
    /\ LET t == span_test(rect.x, rect.w, U32(pixel_x(Len(r_cls))))
       IN  IF t = "in" THEN r_pc' = "test_y" /\ r_cls' = r_cls
           ELSE IF t = "panic" THEN r_pc' = "panicked" /\ r_cls' = r_cls
           ELSE /\ r_cls' = Append(r_cls, t)
                /\ r_pc' = after_push(r_cls')
    /\ UNCHANGED <<rect, tmp_file, overflow_checks, lock, w_pc, w_cast, obs_y,
                   completed, nWrites, nPasses>>
    /\ UNCHANGED main_vars

\* lines 167-187, pixel Len(r_cls): the y half, and the push of the pixel
DrawTestY ==
    /\ r_pc = "test_y"
    /\ obs_y' = obs_y \cup {rect.y}
    /\ LET t == span_test(rect.y, rect.h, U32(pixel_y(Len(r_cls))))
       IN  IF t = "panic" THEN r_pc' = "panicked" /\ r_cls' = r_cls
           ELSE /\ r_cls' = Append(r_cls, t)
                /\ r_pc' = after_push(r_cls')
    /\ UNCHANGED <<rect, tmp_file, overflow_checks, lock, w_pc, w_cast, obs_x,
                   completed, nWrites, nPasses>>
    /\ UNCHANGED main_vars

\* lines 188-189: tmp.write_all(pixels.as_slice()), tmp.flush()
DrawWriteAll ==
    /\ r_pc = "write"
    /\ tmp_file' = write_all(tmp_file, pixel_vec(r_cls))
    /\ r_pc' = "unlock"
    /\ UNCHANGED <<rect, overflow_checks, lock, w_pc, w_cast, r_cls, obs_x,
                   obs_y, completed, nWrites, nPasses>>
    /\ UNCHANGED main_vars

\* line 190: the read guard is dropped at the end of draw
DrawUnlock ==
    /\ r_pc = "unlock"
    /\ lock' = [lock EXCEPT !.readers = @ - 1]
    /\ nPasses' = nPasses + 1
    /\ r_pc' = "idle"
    /\ UNCHANGED <<rect, tmp_file, overflow_checks, w_pc, w_cast, r_cls, obs_x,
                   obs_y, completed, nWrites>>
    /\ UNCHANGED main_vars

NextRW ==
    \/ MotionLock
    \/ MotionSetX
    \/ MotionSetY
    \/ MotionUnlock
    \/ DrawLock
    \/ DrawPrint
    \/ DrawSeek
    \/ DrawTestX
    \/ DrawTestY
    \/ DrawWriteAll
    \/ DrawUnlock

SpecRW == Init /\ [][NextRW]_vars

\* ============================================================ properties
\* The buffer as the presentation surface reads it: pixel i is the four bytes
\* at offset 4*i, one 32-bit ARGB value in the target's byte order.
file_pixel(i) ==
    <<tmp_file.bytes[4 * i + 1], tmp_file.bytes[4 * i + 2],
      tmp_file.bytes[4 * i + 3], tmp_file.bytes[4 * i + 4]>>

TargetEndians == {"little", "big"}

read_u32(b, endian) ==
    IF endian = "big"
    THEN <<b[1] * 256 + b[2], b[3] * 256 + b[4]>>
    ELSE <<b[4] * 256 + b[3], b[2] * 256 + b[1]>>

\* 0xFFFFFFFF and 0xFF000000
OPAQUE_WHITE == <<255 * 256 + 255, 255 * 256 + 255>>

OPAQUE_BLACK == <<255 * 256, 0>>

\* white and black whatever the byte order: alpha 0xFF is one of the bytes
IsWhite(b) == b = <<255, 255, 255, 255>>

IsBlack(b) == \E e \in TargetEndians : read_u32(b, e) = OPAQUE_BLACK

\* v < a + b with the sum taken in unbounded integers
LtSum(v, a, b) == AddOverflows(a, b) \/ U32Lt(v, WrappingAdd(a, b))

\* strict interior inclusion of pixel (x, y) in r
Interior(r, x, y) ==
    /\ U32Lt(r.x, U32(x))
    /\ LtSum(U32(x), r.x, r.w)
    /\ U32Lt(r.y, U32(y))
    /\ LtSum(U32(y), r.y, r.h)

Rendered == nDraw > 0 /\ Len(tmp_file.bytes) = 4 * BUF_X * BUF_Y

\* C1: after a render pass of Rect r, for every (x, y) with 0 <= x < BUF_X and
\* 0 <= y < BUF_Y the pixel at row-major position y * BUF_X + x is white iff
\* (x, y) is strictly inside r, and black otherwise.
C1_MembershipRowMajor ==
    Rendered =>
        \A x \in 0 .. (BUF_X - 1), y \in 0 .. (BUF_Y - 1) :
            LET b == file_pixel(y * BUF_X + x)
            IN  IF Interior(drawn_rect, x, y) THEN IsWhite(b) ELSE IsBlack(b)

\* C2: after a render pass no pixel in column rect.x or rect.x + rect.w, or in
\* row rect.y or rect.y + rect.h, of the row-major buffer is white.
C2_BorderNeverWhite ==
    Rendered =>
        \A x \in 0 .. (BUF_X - 1), y \in 0 .. (BUF_Y - 1) :
            (\/ U32(x) = drawn_rect.x
             \/ (~AddOverflows(drawn_rect.x, drawn_rect.w)
                   /\ U32(x) = WrappingAdd(drawn_rect.x, drawn_rect.w))
             \/ U32(y) = drawn_rect.y
             \/ (~AddOverflows(drawn_rect.y, drawn_rect.h)
                   /\ U32(y) = WrappingAdd(drawn_rect.y, drawn_rect.h)))
                => ~IsWhite(file_pixel(y * BUF_X + x))

\* C3: renders and commits strictly alternate, and whenever the loop starts
\* waiting for events after N frame-done notifications, draw has run N times
\* and attach/damage/commit has been performed N times after the startup
\* render and commit.
C3_OneRenderOneCommitPerFrame ==
    /\ nDraw - nCommit \in {0, 1}
    /\ (pc = "dispatch" /\ ~handled) =>
           (nDraw = nDone + 1 /\ nCommit = nDone + 1)

C9_AttachDamageCommit ==
    /\ requests \in {<<>>,
                     <<(<<"attach", 0, 0>>)>>,
                     <<(<<"attach", 0, 0>>), (<<"damage", 0, 0, BUF_X, BUF_Y>>)>>}
    /\ pc = "commit" => Len(requests) = 2
    /\ nCommit > 0 =>
           committed = <<(<<"attach", 0, 0>>), (<<"damage", 0, 0, BUF_X, BUF_Y>>)>>

\* a second loop iteration has committed
C9_Witness == nCommit >= 2 /\ Len(committed) = 2 /\ pc = "frame"

\* C10: every pixel of a rendered buffer, read as one native-endian 32-bit
\* value, is 0xFFFFFFFF or 0xFF000000, on every target.
C10_OpaqueArgb ==
    Rendered =>
        \A e \in TargetEndians, i \in 0 .. (BUF_X * BUF_Y - 1) :
            read_u32(file_pixel(i), e) \in {OPAQUE_WHITE, OPAQUE_BLACK}

\* C4 as stated: after a pointer-motion event with an unsigned payload (x, y)
\* the Rect is at exactly (x, y), and w and h are as before.
C4_MotionSetsPayload ==
    (last_event[1] = "motion" /\ last_event[2] >= 0 /\ last_event[3] >= 0) =>
        /\ rect.x[1] = 0 /\ rect.x[2] * 256 = last_event[2]
        /\ rect.y[1] = 0 /\ rect.y[2] * 256 = last_event[3]
        /\ rect.w = prev_rect.w
        /\ rect.h = prev_rect.h

\* u is what `v as u32` leaves for the wl_fixed value v: the integer part of a
\* value above -1.0; for a value of -1.0 or less 0, or the integer part taken
\* mod 2^32
IsCastOf(u, v) ==
    IF v > -256
    THEN /\ u[1] < 128
         /\ LET n == u[1] * Half + u[2]
            IN  IF v >= 0 THEN n * 256 <= v /\ v < n * 256 + 256 ELSE n = 0
    ELSE \/ u = <<0, 0>>
         \/ /\ u[1] = Half - 1
            /\ LET m == Half - u[2]
               IN  m * 256 <= 0 - v /\ 0 - v < m * 256 + 256

\* C4, amended: after a pointer-motion event with payload (x, y) the Rect is
\* at (x as u32, y as u32), whatever its position was before, and w and h are
\* as before.
C4_MotionSetsCastPayload ==
    last_event[1] = "motion" =>
        /\ IsCastOf(rect.x, last_event[2])
        /\ IsCastOf(rect.y, last_event[3])
        /\ rect.w = prev_rect.w
        /\ rect.h = prev_rect.h

\* a motion to (2.75, 3.0) arrived when the Rect was elsewhere than at its
\* initial position, and left it at (2, 3)
C4_Witness ==
    /\ last_event = <<"motion", 704, 768>>
    /\ prev_rect.x # <<0, 0>>
    /\ prev_rect.y # <<0, 3>>
    /\ rect.x = <<0, 2>>
    /\ rect.y = <<0, 3>>

\* C5: a key-release of code 103, 108, 105 or 106 has moved the Rect by
\* exactly 5 (mod 2^32) on one axis: y - 5, y + 5, x - 5, x + 5; the other
\* coordinate, w and h are as before the event.
C5_KeyStep ==
    (last_event[1] = "key" /\ last_event[3] = "Released") =>
        /\ last_event[2] = 103 =>
               rect = [prev_rect EXCEPT !.y = WrappingSub(prev_rect.y, <<0, 5>>)]
        /\ last_event[2] = 108 =>
               rect = [prev_rect EXCEPT !.y = WrappingAdd(prev_rect.y, <<0, 5>>)]
        /\ last_event[2] = 105 =>
               rect = [prev_rect EXCEPT !.x = WrappingSub(prev_rect.x, <<0, 5>>)]
        /\ last_event[2] = 106 =>
               rect = [prev_rect EXCEPT !.x = WrappingAdd(prev_rect.x, <<0, 5>>)]

\* C6: a key-release of code 105 (103) when x (y) was below 5 has left the
\* coordinate at (old - 5) mod 2^32, and main has not panicked.
C6_UnderflowWraps ==
    (last_event[1] = "key" /\ last_event[3] = "Released") =>
        /\ (last_event[2] = 105 /\ U32Lt(prev_rect.x, <<0, 5>>)) =>
               /\ rect.x = <<Half - 1, Half + prev_rect.x[2] - 5>>
               /\ pc # "panicked"
        /\ (last_event[2] = 103 /\ U32Lt(prev_rect.y, <<0, 5>>)) =>
               /\ rect.y = <<Half - 1, Half + prev_rect.y[2] - 5>>
               /\ pc # "panicked"

\* C8: at every point of a render pass that runs beside the motion handler,
\* all the values of rect.x and rect.y the pass has read so far are the x and
\* the y of one pair left by AppState::new or by one completed handler.
C8_NoTornRect ==
    \E p \in completed : obs_x \subseteq {p[1]} /\ obs_y \subseteq {p[2]}

\* a pass is in its pixel loop after a motion to (2.75, 3.0) completed, has
\* read both fields, and the handler may run again
C8_Witness ==
    /\ r_pc \in {"test_x", "test_y"}
    /\ Len(r_cls) > BUF_X
    /\ nWrites = 1
    /\ obs_x = {<<0, 2>>}
    /\ obs_y = {<<0, 3>>}

\* C11: whenever main is blocked in dispatch with nothing handled yet, at least
\* one frame callback is outstanding, and rendering can always go on: main's
\* thread has not stopped, so that the next firing of the callback renders again.
C11_RearmedAndRendering ==
    /\ (pc = "dispatch" /\ ~handled) => frame_cbs >= 1
    /\ pc # "panicked"


\* C12: no commit without a render since the previous commit: every commit is
\* issued with a render pass as the latest of the two operations, also when
\* dispatch returned after input events only.
C12_CommitOnlyAfterRender ==
    [][(nCommit' = nCommit + 1) => (last_op = "render")]_vars

\* C13: at most one frame callback is requested and not yet fired, in every
\* reachable state.
C13_OneOutstandingFrame == frame_cbs <= 1


\* C14: a render pass holds the read lock only to take its snapshot of the
\* Rect: while it computes the pixels or writes them, no read lock is held.
C14_LockFreePixelPass ==
    (r_pc \in {"test_x", "test_y", "write"}) => (lock.readers = 0)


\* the events that move the Rect: pointer motion, and the release of one of
\* the four arrow keys
MovesRect(ev) ==
    \/ ev[1] = "motion"
    \/ /\ ev[1] = "key"
       /\ ev[3] = "Released"
       /\ ev[2] \in {KEY_UP, KEY_DOWN, KEY_LEFT, KEY_RIGHT}

\* C15: after any other input event (a key press, the release of another key,
\* a pointer button, enter or leave) the whole Rect is what it was before the
\* event.
C15_OtherInputsKeepRect ==
    (last_event[1] \in {"key", "button", "enter", "leave"}
        /\ ~MovesRect(last_event)) => (rect = prev_rect)

\* the press of an arrow key was handled with the Rect away from the origin
C15_Witness ==
    /\ last_event = <<"key", KEY_LEFT, "Pressed">>
    /\ prev_rect.x = U32(2)
    /\ rect = prev_rect


\* C16: in every reachable state the Rect has the width and the height it was
\* constructed with (50 by 50 in the program, RECT_W by RECT_H here).
C16_SizeFixed ==
    /\ rect.w = U32(RECT_W)
    /\ rect.h = U32(RECT_H)

\* a motion and a key release have moved the Rect on both axes, a frame
\* callback has rendered it, and its size is the constructed one
C16_Witness ==
    /\ nInput = MaxInputs
    /\ nDone >= 1
    /\ rect.x # AppState_new.x
    /\ rect.y # AppState_new.y
    /\ last_event = <<"done">>
    /\ rect.w = AppState_new.w
    /\ rect.h = AppState_new.h


\* C17: as long as no input and no frame event has been dispatched, main has
\* gone through, in this order: one render of the initial Rect, one attach,
\* damage and commit, one frame request; it waits for events only after all of
\* them, and no event is dispatched before.
C17_StartupOrder ==
    /\ (nInput = 0 /\ nDone = 0 /\ pc # "panicked") =>
          /\ pc \in {"start", "attach", "damage", "commit", "frame", "dispatch"}
          /\ nDraw = (IF pc = "start" THEN 0 ELSE 1)
          /\ nCommit = (IF pc \in {"frame", "dispatch"} THEN 1 ELSE 0)
          /\ frame_cbs = (IF pc = "dispatch" THEN 1 ELSE 0)
          /\ (nDraw = 1) =>
                 /\ drawn_rect = AppState_new
                 /\ tmp_file.bytes = pixels(AppState_new)
          /\ requests = (IF pc = "damage" THEN <<attach_request>>
                         ELSE IF pc = "commit"
                              THEN <<attach_request, damage_request>>
                         ELSE <<>>)
          /\ (nCommit = 1) => (committed = <<attach_request, damage_request>>)
    /\ (nInput + nDone > 0) =>
          (nDraw >= 1 /\ nCommit >= 1 /\ frame_cbs + nDone >= 1)

\* main waits in dispatch for the first event, startup done
C17_Witness ==
    /\ pc = "dispatch"
    /\ ~handled
    /\ nInput = 0
    /\ nDone = 0
    /\ nDraw = 1
    /\ nCommit = 1
    /\ frame_cbs = 1


\* C18: every render pass uses the Rect that the input events handled so far
\* have left in the scene, the cumulative result of all of them: the pixels it
\* writes are those of the scene's Rect at the time of the pass, and the pass
\* leaves that Rect as it is.
C18_RenderUsesLatestRect ==
    [][(nDraw' = nDraw + 1) =>
          /\ drawn_rect' = rect
          /\ tmp_file'.bytes = pixels(rect)
          /\ rect' = rect]_vars

\* a motion to (2, 3) and then a release of key 108 were handled with no frame
\* callback between them, and the one render since shows the Rect at (2, 8)
C18_Witness ==
    /\ last_event = <<"done">>
    /\ nDone = 1
    /\ nDraw = 2
    /\ nInput = 2
    /\ drawn_rect.x = U32(2)
    /\ drawn_rect.y = U32(8)
    /\ tmp_file.bytes = pixels(drawn_rect)


\* the Rect an input event leaves when it is applied to the Rect r
Applied(ev, r) ==
    IF ev[1] = "motion"
    THEN {[r EXCEPT !.x = cx, !.y = cy] :
              cx \in F64AsU32(ev[2]), cy \in F64AsU32(ev[3])}
    ELSE IF ev[1] = "key" /\ ev[3] = "Released" /\ ev[2] = KEY_UP
    THEN {[r EXCEPT !.y = WrappingSub(r.y, U32(KEY_STEP))]}
    ELSE IF ev[1] = "key" /\ ev[3] = "Released" /\ ev[2] = KEY_DOWN
    THEN {[r EXCEPT !.y = WrappingAdd(r.y, U32(KEY_STEP))]}
    ELSE IF ev[1] = "key" /\ ev[3] = "Released" /\ ev[2] = KEY_LEFT
    THEN {[r EXCEPT !.x = WrappingSub(r.x, U32(KEY_STEP))]}
    ELSE IF ev[1] = "key" /\ ev[3] = "Released" /\ ev[2] = KEY_RIGHT
    THEN {[r EXCEPT !.x = WrappingAdd(r.x, U32(KEY_STEP))]}
    ELSE {r}

\* C19: a render pass after the startup one runs only when a frame callback
\* fires, so none runs while the surface fires none; every input event
\* delivered, with or without frame callbacks firing, is handled and applied to
\* the Rect, and main goes on to handle the next one.
C19_InputAppliedWithoutFrames ==
    [][/\ (nDraw' = nDraw + 1) => (nDraw = 0 \/ nDone' = nDone + 1)
       /\ (nInput' = nInput + 1) =>
              /\ rect' \in Applied(last_event', rect)
              /\ pc' = pc]_vars


\* the membership test with both sums wrapped to 32 bits
WrappingTest(r, i, j) ==
    /\ U32Lt(r.x, i)
    /\ U32Lt(i, WrappingAdd(r.x, r.w))
    /\ U32Lt(r.y, j)
    /\ U32Lt(j, WrappingAdd(r.y, r.h))

\* the Rect lies beyond every coordinate of the buffer on one axis at least
OffBuffer(r) == r.x[1] = Half - 1 \/ r.y[1] = Half - 1

\* the largest row number draw derives from a pixel index
MaxRow == (BUF_X * BUF_Y - 1) \div BUF_Y

\* for the Rect r and every pair of coordinates, those of the buffer's pixels
\* and those draw derives from the pixel indices: the test with wrapping sums
\* and the test draw computes both answer as the test on unbounded integers
\* does, and draw's test does not fail
MembershipExact(r) ==
    \A x \in 0 .. (BUF_X - 1) :
        \A y \in 0 .. (IF MaxRow > BUF_Y - 1 THEN MaxRow ELSE BUF_Y - 1) :
            LET unbounded == Interior(r, x, y)
            IN  /\ WrappingTest(r, U32(x), U32(y)) <=> unbounded
                /\ is_coords_in_rect(r, U32(x), U32(y)) =
                       (IF unbounded THEN "in" ELSE "out")

\* the states in which the Rect has just been written: the initial one, and
\* those main is in right after the handler of a motion or key event returned
\* (every other state carries the Rect of such a state)
RectJustWritten ==
    \/ pc = "start"
    \/ (pc = "dispatch" /\ handled /\ last_event[1] \in {"motion", "key"})

\* C20: for every Rect the program reaches, wrapped ones included, the wrapping
\* test and draw's test agree with the unbounded test for every pixel; and the
\* render pass of a Rect that lies off the buffer has completed and left an
\* all-black frame.
C20_WrappingTestExact ==
    /\ RectJustWritten => MembershipExact(rect)
    /\ (last_event = <<"done">> /\ OffBuffer(rect)) =>
          /\ pc # "panicked"
          /\ Rendered
          /\ drawn_rect = rect
          /\ \A i \in 0 .. (BUF_X * BUF_Y - 1) : IsBlack(file_pixel(i))

\* the Rect was stepped left from x = 2 to 2^32 - 3, where x + w is above 2^32,
\* and a frame callback has rendered it
C20_Witness ==
    /\ last_event = <<"done">>
    /\ Rendered
    /\ rect = drawn_rect
    /\ drawn_rect.x = <<Half - 1, Half - 3>>
    /\ AddOverflows(drawn_rect.x, drawn_rect.w)
    /\ \A i \in 0 .. (BUF_X * BUF_Y - 1) : IsBlack(file_pixel(i))

====
